---- MODULE Spec2Model ----
(***************************************************************************)
(* Model of the open-addressing hash table of basic_hash_table.c/.h:       *)
(* quadratic probing, tombstones, growth by rehash, callback-mediated      *)
(* element assignment (assign_long / assign_string), iteration.            *)
(*                                                                         *)
(* Memory representation.  A table cell (one key or one value) is a record *)
(* [ptr, data].  For a char* cell, ptr is the heap allocation the pointer  *)
(* refers to and data is the string stored there (a sequence of character  *)
(* codes); ptr = 0 is a string owned by the caller.  For a long cell,      *)
(* ptr = 0 and data is the one-element sequence holding the number.        *)
(*                                                                         *)
(* The module also models the deque of deque.h, built on the link and      *)
(* unlink operations of intrusive_linked_list.h.                           *)
(***************************************************************************)
EXTENDS Integers, Sequences, FiniteSets, TLC

VARIABLES
    table,      \* the struct basic_hash_table
    heap,       \* the strings allocated by assign_string
    alive,      \* FALSE once basic_hash_table_delete has run
    last,       \* the last call the caller made (its key and value) and what it returned
    abs,        \* the key -> value map the calls so far describe
    removed,    \* the keys whose last set/remove was a remove that returned 1
    order,      \* round trip: the keys the caller still has to insert
    iter,       \* round trip: the caller's cursor, -1 before begin()
    produced,   \* round trip: the pairs next wrote into the caller's buffers
    deque,      \* the struct deque
    nodes,      \* the allocated deque nodes, by address
    dq_last,    \* the last call made on the deque and what it returned
    dq_abs,     \* the sequence the calls on the deque so far describe
    list,       \* the nodes of the intrusive list's caller, by address
    il_last,    \* the last call made on the list
    il_abs,     \* the addresses of the linked nodes, from the head to the tail
    arr,        \* the growable array: the caller's pointer and the block it refers to
    ar_last,    \* the last call made on the array and what it returned
    ar_abs      \* the sequence the calls on the array so far describe

\* the variables of the hash table and its callers
ht_vars == <<table, heap, alive, last, abs, removed, order, iter, produced>>
\* the variables of the deque and its caller
dq_vars == <<deque, nodes, dq_last, dq_abs>>

\* the variables of the intrusive list's caller
il_vars == <<list, il_last, il_abs>>

\* the variables of the growable array and its caller
ar_vars == <<arr, ar_last, ar_abs>>

vars == <<ht_vars, dq_vars, il_vars, ar_vars>>

(***************************************************************************)
(* Program constants.                                                      *)
(***************************************************************************)
HASH_ELEM_EMPTY == 0
HASH_ELEM_USED == 1
HASH_ELEM_DELETED == 2

primes == <<13, 17, 29, 47, 61, 97, 157, 251, 349>>

\* hash_t is size_t: hashes are unsigned numbers of this many bits
HashBits == 64
\* the reserve of a new array, in elements (arr.h)
default_arr_size == 10

\* the null pointer, and the contents of storage malloc returned and nobody wrote
NULL == [ptr |-> -1, data |-> <<>>]
Uninit == [ptr |-> -2, data |-> <<>>]
\* a pointer whose string was freed: its value is indeterminate from then on
Indeterminate == [ptr |-> -3, data |-> <<>>]

(***************************************************************************)
(* Bounds of the model.                                                    *)
(***************************************************************************)
\* the table may grow up to primes[MaxPrimeIdx]
MaxPrimeIdx == 2
\* number of keys inserted in the round-trip specification
MaxInsert == 8
\* number of successive capacities whose successor is computed
MaxGrowths == 14
\* the deque holds at most this many elements
MaxDequeLen == 4
\* the nodes the caller of the intrusive list has (ill_test has four)
MaxNodes == 4
\* the caller pushes, inserts, removes and pops on an array of at most this
\* many elements
MaxArrLen == 4
\* the array kept sorted with arr_binarysearch holds at most this many
MaxSorted == 5

\* keys used by the callers: "G" and "T", which collide modulo 13 (at slot 12,
\* the last one of the initial storage) and not modulo 17
Keys == {<<71>>, <<84>>}
\* long values, as in test_strtol
LongValues == {<<10>>, <<60>>}
\* string values ("v", "w") for a table whose values are owned strings
StrValues == {<<118>>, <<119>>}
\* keys of the round-trip specification: "G", "T", "A", "N", "B", "O", ...
\* (pairs that collide modulo 13)
RTKeyList == <<71, 84, 65, 78, 66, 79, 67, 80, 68, 81, 69, 82>>
RTKeySeq == [n \in 1..MaxInsert |-> <<RTKeyList[n]>>]
Rot(s, r) == [i \in 1..Len(s) |-> s[((i + r - 1) % Len(s)) + 1]]
Rev(s) == [i \in 1..Len(s) |-> s[Len(s) + 1 - i]]
\* the odd positions of s, then the even ones
Split(s) == [i \in 1..Len(s) |->
                IF i <= (Len(s) + 1) \div 2 THEN s[2 * i - 1]
                ELSE s[2 * (i - (Len(s) + 1) \div 2)]]
\* the orders of insertion tried: the rotations of the list, of its reverse and
\* of the list with the colliding pairs split
RTOrders == {Rot(o, r) : o \in {RTKeySeq, Rev(RTKeySeq), Split(RTKeySeq)},
                         r \in 0..(MaxInsert - 1)}
\* the value inserted with a key, as in test_stol (ten times the key)
RTValue(k) == <<k[1] * 10>>

\* short keys, as in test_stol, for a table whose hash function is hash_value:
\* the keys in the slots that the probe sequence of -1 visits in a storage of
\* 13 slots, and -1, whose hash is the largest hash_t
ShortKeyList == <<0, 2, 3, 8, 9, 11, -1>>
ShortKeySeq == [n \in 1..Len(ShortKeyList) |-> <<ShortKeyList[n]>>]
ShortKeys == {ShortKeySeq[n] : n \in 1..Len(ShortKeyList)}
\* the orders of insertion tried: the rotations of the list and of its
\* reverse, each followed by its first key, which is set a second time
ShortOrders == {Rot(o, r) \o <<Rot(o, r)[1]>> :
                   o \in {ShortKeySeq, Rev(ShortKeySeq)},
                   r \in 0..(Len(ShortKeyList) - 1)}
\* the value inserted with a short key, as in test_stol (ten times the key)
StolValue(k) == <<k[1] * 10>>

Arg(d) == [ptr |-> 0, data |-> d]

\* what the caller pushes on the deque: the addresses of one, two and three
DequeData == {1, 2, 3}
\* the elements pushed and inserted into the growable array
ArrData == {1, 2}
\* the elements the caller pushes one after the other as arr_test pushes the
\* characters of its string: more of them than the first block holds
ArrString == [i \in 1..(default_arr_size + 2) |-> 1 + (i % 2)]
\* the sizes the caller reserves: one within the first block, one beyond it
ReserveSizes == {1, default_arr_size + 1}
\* the keys searched for, and inserted into the sorted array
SearchKeys == {2, 4, 6}
\* the keys searched for that are never inserted
ProbeKeys == {1, 3, 5, 7}

(***************************************************************************)
(* The heap of strings: the live allocations, and whether free was called  *)
(* on a pointer that is not a live allocation.                             *)
(***************************************************************************)
Min(S) == CHOOSE x \in S : \A y \in S : x <= y

\* a heap that counts the calls of strdup and free made on it, from now on
Counting(H) == [live |-> H.live, bad_free |-> H.bad_free, allocs |-> 0, frees |-> 0]

\* one more call of f ("allocs" or "frees"), on a heap that counts them
Tick(H, f) == IF f \in DOMAIN H THEN [H EXCEPT ![f] = @ + 1] ELSE H

free(H, p) ==
    IF p \in H.live
    THEN Tick([H EXCEPT !.live = @ \ {p}], "frees")
    ELSE Tick([H EXCEPT !.bad_free = TRUE], "frees")

\* the address of a new allocation: one that is not live
strdup_addr(H) == Min(1..(Cardinality(H.live) + 1) \ H.live)

assign_long(cur, new_elem, old_elem, same, H) ==
    [cell |-> IF new_elem # NULL THEN new_elem ELSE cur, heap |-> H]

assign_short(cur, new_elem, old_elem, same, H) ==
    [cell |-> IF new_elem # NULL THEN new_elem ELSE cur, heap |-> H]

assign_string(cur, new_elem, old_elem, same, H) ==
    IF same
    THEN [cell |-> new_elem, heap |-> H]
    ELSE LET H1 == IF old_elem # NULL THEN free(H, old_elem.ptr) ELSE H
         IN  IF new_elem # NULL
             THEN LET p == strdup_addr(H1)
                  IN  [cell |-> [ptr |-> p, data |-> new_elem.data],
                       heap |-> Tick([H1 EXCEPT !.live = @ \cup {p}], "allocs")]
             ELSE [cell |-> IF old_elem # NULL THEN Indeterminate ELSE cur, heap |-> H1]

\* call through a function pointer of the table
assign(fn, cur, new_elem, old_elem, same, H) ==
    IF fn = "assign_string"
    THEN assign_string(cur, new_elem, old_elem, same, H)
    ELSE IF fn = "assign_short"
    THEN assign_short(cur, new_elem, old_elem, same, H)
    ELSE assign_long(cur, new_elem, old_elem, same, H)

(***************************************************************************)
(* hash_string (djb2) and compare_string.                                  *)
(***************************************************************************)
RECURSIVE hash_string_from(_, _, _)
hash_string_from(str, n, hash) ==
    IF n > Len(str) THEN hash
    ELSE hash_string_from(str, n + 1, (hash * 32 + hash) + str[n])

hash_string(key) == hash_string_from(key.data, 1, 5381)

\* 0 when the strings are equal (the sign of a difference is never used)
compare_string(a, b) == IF a.data = b.data THEN 0 ELSE 1

\* a caller's hash function for short keys: the key itself, converted to
\* hash_t.  A hash h >= 2^(HashBits - 1) is written h - 2^HashBits, so that the
\* hash of the key -1 (the largest hash_t) is written -1.
hash_value(key) == key.data[1]

\* call through the hash function pointer of the table
hash(fn, key) ==
    IF fn = "hash_string" THEN hash_string(key) ELSE hash_value(key)

\* 2^w modulo r
RECURSIVE Pow2Mod(_, _)
Pow2Mod(w, r) ==
    IF w = 0 THEN 1 % r
    ELSE IF w % 2 = 0
    THEN LET x == Pow2Mod(w \div 2, r) IN (x * x) % r
    ELSE (2 * Pow2Mod(w - 1, r)) % r

\* faulty variant: the step stops growing after the first one
probe_stalls(h, i, reserved) ==
    LET j == IF i > 1 THEN 1 ELSE i
        sum == h + j * j
    IN  IF sum < 0
        THEN (Pow2Mod(HashBits, reserved) + (sum % reserved)) % reserved
        ELSE sum % reserved

\* faulty variant: linear probing
probe_linear(h, i, reserved) ==
    LET sum == h + i
    IN  IF sum < 0
        THEN (Pow2Mod(HashBits, reserved) + (sum % reserved)) % reserved
        ELSE sum % reserved

\* (hash + i * i) % reserved in hash_t arithmetic: the sum is taken modulo
\* 2^HashBits.  With h written as above, a sum below 0 stands for the number
\* 2^HashBits + h + i * i, and a sum that reaches 0 has wrapped around.
probe(h, i, reserved) ==
    LET sum == h + i * i
    IN  IF sum < 0
        THEN (Pow2Mod(HashBits, reserved) + (sum % reserved)) % reserved
        ELSE sum % reserved

\* faulty variant: a table that has its first size shrinks to half of it
next_prime_size_halves(old) ==
    IF old < primes[1] THEN primes[1] ELSE old \div 2

\* faulty variant: grows by one half whatever the size, without the primes
next_prime_size_no_primes(old) ==
    IF old < primes[1] THEN primes[1] ELSE (old * 2) - (old \div 2)

next_prime_size(old) ==
    IF old < primes[1] THEN primes[1]
    ELSE IF old >= primes[Len(primes)] THEN (old * 2) - (old \div 2)
    ELSE LET i == CHOOSE j \in 1..(Len(primes) - 1) :
                     /\ old >= primes[j]
                     /\ \A l \in (j + 1)..(Len(primes) - 1) : old < primes[l]
         IN  primes[i + 1]

(***************************************************************************)
(* set, rehash.  A machine state m is [t |-> the table struct, h |-> the   *)
(* heap]; set returns the machine state, the return value, the number of   *)
(* rehash passes it made and whether assert(!reset) failed.                *)
(***************************************************************************)
\* faulty variant: compares the load with the whole capacity
needs_rehash_full(load, reserved) == load > reserved

\* faulty variant: grows one insertion early
needs_rehash_at_half(load, reserved) == load >= reserved \div 2

\* the growth trigger of set
needs_rehash(load, reserved) == load > reserved \div 2

\* set places a new entry in a slot with one of these flags
slot_free(flag) == flag = HASH_ELEM_EMPTY \/ flag = HASH_ELEM_DELETED

\* faulty variant: rehash re-inserts the tombstones too
slot_moves_all_used(flag) == flag # HASH_ELEM_EMPTY

\* rehash re-inserts the slots with these flags
slot_moves(flag) == flag % 2 = HASH_ELEM_USED

RECURSIVE basic_hash_table_set_inner(_, _, _, _)
RECURSIVE set_probe(_, _, _, _, _, _, _)
RECURSIVE set_retry(_, _, _, _, _, _)
RECURSIVE rehash_loop(_, _, _, _)
RECURSIVE basic_hash_table_rehash(_, _, _)

\* faulty variant: the loop leaves out the last slot of the old storage
RECURSIVE rehash_loop_skips_last(_, _, _, _)
rehash_loop_skips_last(m, old, i, oldsize) ==
    IF i >= oldsize - 1 THEN m
    ELSE IF slot_moves(old.flags[i])
         THEN rehash_loop_skips_last(
                  basic_hash_table_set_inner(m, old.keys[i], old.values[i], TRUE).m,
                  old, i + 1, oldsize)
         ELSE rehash_loop_skips_last(m, old, i + 1, oldsize)

\* the for loop of rehash: re-insert old slot i, i + 1, ...
rehash_loop(m, old, i, oldsize) ==
    IF i >= oldsize THEN m
    ELSE IF slot_moves(old.flags[i])
         THEN rehash_loop(
                  basic_hash_table_set_inner(m, old.keys[i], old.values[i], TRUE).m,
                  old, i + 1, oldsize)
         ELSE rehash_loop(m, old, i + 1, oldsize)

basic_hash_table_rehash(m, oldsize, newsize) ==
    LET cleared == [m.t EXCEPT !.keys = [i \in 0..(newsize - 1) |-> Uninit],
                             !.values = [i \in 0..(newsize - 1) |-> Uninit],
                             !.flags = [i \in 0..(newsize - 1) |-> HASH_ELEM_EMPTY],
                             !.load = 0,
                             !.reserved = newsize]
    IN  rehash_loop([m EXCEPT !.t = cleared], m.t, 0, oldsize)

\* faulty variant: a placement that load does not count
set_place_uncounted(m, index, key, value, reset) ==
    LET t == m.t
        ak == assign(t.assign_key, t.keys[index], key,
                     IF reset THEN key ELSE NULL, reset, m.h)
        av == assign(t.assign_value, t.values[index], value,
                     IF reset THEN value ELSE NULL, reset, ak.heap)
    IN  [t |-> [t EXCEPT !.keys[index] = ak.cell,
                         !.values[index] = av.cell,
                         !.flags[index] = HASH_ELEM_USED],
         h |-> av.heap]

\* a new entry is placed in slot index
set_place(m, index, key, value, reset) ==
    LET t == m.t
        ak == assign(t.assign_key, t.keys[index], key,
                     IF reset THEN key ELSE NULL, reset, m.h)
        av == assign(t.assign_value, t.values[index], value,
                     IF reset THEN value ELSE NULL, reset, ak.heap)
    IN  [t |-> [t EXCEPT !.keys[index] = ak.cell,
                         !.values[index] = av.cell,
                         !.flags[index] = HASH_ELEM_USED,
                         !.load = @ + 1],
         h |-> av.heap]

\* faulty variant: the matching entry keeps its value
set_overwrite_keeps_value(m, index, value) ==
    [m EXCEPT !.t.flags[index] = HASH_ELEM_USED]

\* the value of the entry in slot index, whose key matched, is replaced
set_overwrite(m, index, value) ==
    LET t == m.t
        av == assign(t.assign_value, t.values[index], value, t.values[index], FALSE, m.h)
    IN  [t |-> [t EXCEPT !.flags[index] = HASH_ELEM_USED,
                         !.values[index] = av.cell],
         h |-> av.heap]

\* the for loop of set: probe i, i + 1, ...; found = FALSE when it runs out
set_probe(m, key, value, reset, h, i, reserved) ==
    IF i >= reserved THEN [found |-> FALSE, m |-> m, ret |-> 0]
    ELSE LET index == probe(h, i, reserved)
         IN  IF slot_free(m.t.flags[index])
             THEN [found |-> TRUE, ret |-> 1, m |-> set_place(m, index, key, value, reset)]
             ELSE IF compare_string(key, m.t.keys[index]) = 0
             THEN [found |-> TRUE, ret |-> 0, m |-> set_overwrite(m, index, value)]
             ELSE set_probe(m, key, value, reset, h, i + 1, reserved)

\* the while(1) loop of set
set_retry(m, key, value, reset, h, rehashes) ==
    LET r == set_probe(m, key, value, reset, h, 0, m.t.reserved)
    IN  IF r.found
        THEN [m |-> r.m, ret |-> r.ret, rehashes |-> rehashes, assert_failed |-> FALSE]
        ELSE set_retry(
                 basic_hash_table_rehash(m, m.t.reserved, next_prime_size(m.t.reserved)),
                 key, value, reset, h, rehashes + 1)

basic_hash_table_set_inner(m, key, value, reset) ==
    LET h == hash(m.t.hash, key)
        reserved == m.t.reserved
    IN  IF needs_rehash(m.t.load, reserved)
        THEN IF reset
             THEN [m |-> m, ret |-> 0, rehashes |-> 0, assert_failed |-> TRUE]
             ELSE set_retry(
                      basic_hash_table_rehash(m, reserved, next_prime_size(reserved)),
                      key, value, reset, h, 1)
        ELSE set_retry(m, key, value, reset, h, 0)

basic_hash_table_set(m, key, value) ==
    basic_hash_table_set_inner(m, key, value, FALSE)

(***************************************************************************)
(* get, remove.                                                            *)
(***************************************************************************)
\* faulty variant: a lookup gives up at a tombstone too
probe_stops_at_tombstone(flag) == flag # HASH_ELEM_USED

\* a lookup gives up at a slot with this flag
probe_stops(flag) == flag = HASH_ELEM_EMPTY

RECURSIVE get_probe(_, _, _, _)
get_probe(t, key, h, i) ==
    IF i >= t.reserved THEN [found |-> 0, index |-> -1]
    ELSE LET index == probe(h, i, t.reserved)
         IN  IF t.flags[index] = HASH_ELEM_USED /\ compare_string(key, t.keys[index]) = 0
             THEN [found |-> 1, index |-> index]
             ELSE IF probe_stops(t.flags[index])
             THEN [found |-> 0, index |-> -1]
             ELSE get_probe(t, key, h, i + 1)

\* value_out is the caller's buffer (its contents before the call)
basic_hash_table_get_inner(m, key, value_out) ==
    LET r == get_probe(m.t, key, hash(m.t.hash, key), 0)
    IN  IF r.found = 1
        THEN LET tv == m.t.values[r.index]
                 av == assign(m.t.assign_value, value_out, tv, tv, TRUE, m.h)
             IN  [ret |-> 1, out |-> av.cell, index |-> r.index, m |-> [m EXCEPT !.h = av.heap]]
        ELSE [ret |-> 0, out |-> value_out, index |-> -1, m |-> m]

\* faulty variant: a hit turns the entry's slot into a tombstone
basic_hash_table_get_consumes(m, key, value_out) ==
    LET g == basic_hash_table_get_inner(m, key, value_out)
    IN  IF g.ret = 1
        THEN [g EXCEPT !.m.t.flags[g.index] = HASH_ELEM_DELETED]
        ELSE g

basic_hash_table_get(m, key, value_out) == basic_hash_table_get_inner(m, key, value_out)

\* faulty variant: a remove marks the slot Empty
basic_hash_table_remove_empties(m, key, out) ==
    LET g == basic_hash_table_get_inner(m, key, out)
    IN  IF g.ret = 1
        THEN [ret |-> 1, out |-> g.out,
              m |-> [g.m EXCEPT !.t.flags[g.index] = HASH_ELEM_EMPTY]]
        ELSE [ret |-> 0, out |-> g.out, m |-> g.m]

\* faulty variant: a remove gives the slot back to the load count
basic_hash_table_remove_decrements(m, key, out) ==
    LET g == basic_hash_table_get_inner(m, key, out)
    IN  IF g.ret = 1
        THEN [ret |-> 1, out |-> g.out,
              m |-> [g.m EXCEPT !.t.flags[g.index] = HASH_ELEM_DELETED,
                                !.t.load = @ - 1]]
        ELSE [ret |-> 0, out |-> g.out, m |-> g.m]

basic_hash_table_remove(m, key, out) ==
    LET g == basic_hash_table_get_inner(m, key, out)
    IN  IF g.ret = 1
        THEN LET t == g.m.t
                 old_k == t.keys[g.index]
                 old_v == t.values[g.index]
                 ak == assign(t.assign_key, old_k, NULL, old_k, FALSE, g.m.h)
                 av == assign(t.assign_value, old_v, NULL, old_v, FALSE, ak.heap)
             IN  [ret |-> 1, out |-> g.out,
                  m |-> [t |-> [t EXCEPT !.flags[g.index] = HASH_ELEM_DELETED,
                                         !.keys[g.index] = ak.cell,
                                         !.values[g.index] = av.cell],
                         h |-> av.heap]]
        ELSE [ret |-> 0, out |-> g.out, m |-> g.m]

(***************************************************************************)
(* Iteration, delete, new.                                                 *)
(***************************************************************************)
basic_hash_table_begin(t) == 0

basic_hash_table_end(t) == t.reserved

\* faulty variant: the scan stops at a tombstone as it does at an entry
RECURSIVE next_scan_stops_at_tombstone(_, _)
next_scan_stops_at_tombstone(t, it) ==
    IF it < t.reserved /\ t.flags[it] = HASH_ELEM_EMPTY
    THEN next_scan_stops_at_tombstone(t, it + 1)
    ELSE it

\* the while loop of next: the first index >= it that is Occupied, or reserved
RECURSIVE next_scan(_, _)
next_scan(t, it) ==
    IF it < t.reserved /\ t.flags[it] # HASH_ELEM_USED
    THEN next_scan(t, it + 1)
    ELSE it

\* key and value are the caller's buffers (their contents before the call)
basic_hash_table_next(m, it, key, value) ==
    LET t == m.t
        i == next_scan(t, it)
    IN  IF i >= t.reserved
        THEN [ret |-> t.reserved, key |-> key, value |-> value, m |-> m]
        ELSE LET ak == assign(t.assign_key, key, t.keys[i], t.keys[i], TRUE, m.h)
                 av == assign(t.assign_value, value, t.values[i], t.values[i], TRUE, ak.heap)
             IN  [ret |-> i + 1, key |-> ak.cell, value |-> av.cell,
                  m |-> [m EXCEPT !.h = av.heap]]

RECURSIVE delete_loop(_, _)
delete_loop(m, i) ==
    IF i >= m.t.reserved THEN m
    ELSE IF m.t.flags[i] = HASH_ELEM_USED
         THEN LET t == m.t
                  ak == assign(t.assign_key, t.keys[i], NULL, t.keys[i], FALSE, m.h)
                  av == assign(t.assign_value, t.values[i], NULL, t.values[i], FALSE, ak.heap)
              IN  delete_loop([t |-> [t EXCEPT !.keys[i] = ak.cell, !.values[i] = av.cell],
                               h |-> av.heap], i + 1)
         ELSE delete_loop(m, i + 1)

\* the struct after *table = (basic_hash_table_t){ }
ZeroTable ==
    [reserved |-> 0, load |-> 0, keys |-> <<>>, values |-> <<>>, flags |-> <<>>,
     hash |-> "NULL", assign_key |-> "NULL", assign_value |-> "NULL"]

basic_hash_table_delete(m) ==
    [t |-> ZeroTable, h |-> delete_loop(m, 0).h]

\* faulty variant: the first storage has the second size of the primes table
basic_hash_table_new_second_size(hash_fn, assign_key, assign_value, H) ==
    basic_hash_table_rehash(
        [t |-> [ZeroTable EXCEPT !.hash = hash_fn,
                                 !.assign_key = assign_key, !.assign_value = assign_value],
         h |-> H],
        0, primes[2])

basic_hash_table_new(hash_fn, assign_key, assign_value, H) ==
    basic_hash_table_rehash(
        [t |-> [ZeroTable EXCEPT !.hash = hash_fn,
                                 !.assign_key = assign_key, !.assign_value = assign_value],
         h |-> H],
        0, primes[1])

(***************************************************************************)
(* intrusive_linked_list.h and deque.h.  The memory mem maps the address   *)
(* of each allocated node to the node, [prev, next, data]; a machine       *)
(* state d of the deque is [deque |-> the struct, mem |-> the memory].     *)
(***************************************************************************)
ILL_NULL == 0

\* faulty variant: the next node is not linked back to the new node
ill_link_one_way(mem, node, prev_node, next_node) ==
    LET m1 == [mem EXCEPT ![node].prev = prev_node, ![node].next = next_node]
    IN  IF prev_node # ILL_NULL THEN [m1 EXCEPT ![prev_node].next = node] ELSE m1

\* the memory after ill_link (which returns node)
ill_link(mem, node, prev_node, next_node) ==
    LET m1 == [mem EXCEPT ![node].prev = prev_node, ![node].next = next_node]
        m2 == IF prev_node # ILL_NULL THEN [m1 EXCEPT ![prev_node].next = node] ELSE m1
    IN  IF next_node # ILL_NULL THEN [m2 EXCEPT ![next_node].prev = node] ELSE m2

\* faulty variant: the node after the unlinked one keeps pointing back to it
ill_unlink_one_way(mem, node) ==
    LET prev == mem[node].prev
        next == mem[node].next
        m1 == IF prev # ILL_NULL THEN [mem EXCEPT ![prev].next = next] ELSE mem
    IN  [m1 EXCEPT ![node].prev = ILL_NULL, ![node].next = ILL_NULL]

\* the memory after ill_unlink (which returns node)
ill_unlink(mem, node) ==
    LET prev == mem[node].prev
        next == mem[node].next
        m1 == IF prev # ILL_NULL THEN [mem EXCEPT ![prev].next = next] ELSE mem
        m2 == IF next # ILL_NULL THEN [m1 EXCEPT ![next].prev = prev] ELSE m1
    IN  [m2 EXCEPT ![node].prev = ILL_NULL, ![node].next = ILL_NULL]

\* malloc gives an address that is not allocated
deque_create_node(mem, data) ==
    LET ret == Min(1..(Cardinality(DOMAIN mem) + 1) \ DOMAIN mem)
    IN  [node |-> ret,
         mem |-> [a \in DOMAIN mem \cup {ret} |->
                     IF a = ret THEN [prev |-> ILL_NULL, next |-> ILL_NULL, data |-> data]
                     ELSE mem[a]]]

deque_free_node(mem, node) == [a \in DOMAIN mem \ {node} |-> mem[a]]

deque_init == [tail |-> ILL_NULL, head |-> ILL_NULL, length |-> 0]

deque_push_back(d, data) ==
    LET c == deque_create_node(d.mem, data)
        mem == ill_link(c.mem, c.node, d.deque.tail, ILL_NULL)
    IN  [deque |-> [tail |-> c.node,
                    head |-> IF d.deque.head = ILL_NULL THEN c.node ELSE d.deque.head,
                    length |-> d.deque.length + 1],
         mem |-> mem]

deque_push_front(d, data) ==
    LET c == deque_create_node(d.mem, data)
        mem == ill_link(c.mem, c.node, ILL_NULL, d.deque.head)
    IN  [deque |-> [head |-> c.node,
                    tail |-> IF d.deque.tail = ILL_NULL THEN c.node ELSE d.deque.tail,
                    length |-> d.deque.length + 1],
         mem |-> mem]

\* the while loop of deque_clear: the nodes are freed from the tail on,
\* following prev
RECURSIVE deque_clear_loop(_, _)
deque_clear_loop(mem, tail) ==
    IF tail = ILL_NULL THEN mem
    ELSE deque_clear_loop(deque_free_node(mem, tail), mem[tail].prev)

\* tail ends as ILL_NULL and length as 0; head is not assigned
deque_clear(d) ==
    [deque |-> [tail |-> ILL_NULL, head |-> d.deque.head, length |-> 0],
     mem |-> deque_clear_loop(d.mem, d.deque.tail)]

\* the caller's part of the contract is deque.tail # ILL_NULL
deque_pop_back(d) ==
    LET prev == d.mem[d.deque.tail].prev
        mem == ill_unlink(d.mem, d.deque.tail)
    IN  [ret |-> mem[d.deque.tail].data,
         deque |-> [tail |-> prev,
                    head |-> IF prev = ILL_NULL THEN ILL_NULL ELSE d.deque.head,
                    length |-> d.deque.length - 1],
         mem |-> deque_free_node(mem, d.deque.tail)]

\* the caller's part of the contract is deque.head # ILL_NULL
deque_pop_front(d) ==
    LET next == d.mem[d.deque.head].next
        mem == ill_unlink(d.mem, d.deque.head)
    IN  [ret |-> mem[d.deque.head].data,
         deque |-> [head |-> next,
                    tail |-> IF next = ILL_NULL THEN ILL_NULL ELSE d.deque.tail,
                    length |-> d.deque.length - 1],
         mem |-> deque_free_node(mem, d.deque.head)]

deque_peek_back(d) == d.mem[d.deque.tail].data

deque_peek_front(d) == d.mem[d.deque.head].data

deque_empty(d) == IF d.deque.tail = ILL_NULL THEN 1 ELSE 0

deque_length(d) == d.deque.length

ill_next(mem, node) == IF node # ILL_NULL THEN mem[node].next ELSE ILL_NULL

ill_prev(mem, node) == IF node # ILL_NULL THEN mem[node].prev ELSE ILL_NULL

RECURSIVE ill_head(_, _)
ill_head(mem, node) ==
    IF node # ILL_NULL /\ mem[node].prev # ILL_NULL
    THEN ill_head(mem, mem[node].prev)
    ELSE node

RECURSIVE ill_tail(_, _)
ill_tail(mem, node) ==
    IF node # ILL_NULL /\ mem[node].next # ILL_NULL
    THEN ill_tail(mem, mem[node].next)
    ELSE node

\* the memory after ill_link_head (which returns node)
ill_link_head(mem, from, node) == ill_link(mem, node, ILL_NULL, ill_head(mem, from))

\* the memory after ill_link_tail (which returns node)
ill_link_tail(mem, from, node) == ill_link(mem, node, ill_tail(mem, from), ILL_NULL)

\* the memory after ill_unlink_head (which returns the head it unlinked)
ill_unlink_head(mem, node) == ill_unlink(mem, ill_head(mem, node))

\* the memory after ill_unlink_tail (which returns the tail it unlinked)
ill_unlink_tail(mem, node) == ill_unlink(mem, ill_tail(mem, node))

\* ill_create_test_node
ill_create_test_node(data) == [prev |-> ILL_NULL, next |-> ILL_NULL, data |-> data]

(***************************************************************************)
(* arr.h and arr.c.  An array a is the caller's pointer with the block it  *)
(* refers to: alloc is FALSE for a NULL pointer; r and s are the reserve   *)
(* and the size of the header, data the r elements after the header.       *)
(***************************************************************************)
\* what an element holds that malloc or realloc returned and nobody wrote
ArrGarbage == 0

NullArr == [alloc |-> FALSE, r |-> 0, s |-> 0, data |-> <<>>]

\* called with *a = NULL
arr_init_(a) ==
    [alloc |-> TRUE, r |-> default_arr_size, s |-> 0,
     data |-> [i \in 0..(default_arr_size - 1) |-> ArrGarbage]]

\* realloc keeps the elements that fit in the new block
arr_realloc_(a, ns) ==
    [a EXCEPT !.r = ns,
              !.data = [i \in 0..(ns - 1) |-> IF i < a.r THEN a.data[i] ELSE ArrGarbage]]

arr_reserve(a, ns) ==
    LET a1 == IF ~a.alloc THEN arr_init_(a) ELSE a
    IN  IF a1.r < ns THEN arr_realloc_(a1, ns * 2 + default_arr_size) ELSE a1

arr_resize(a, ns) == [arr_reserve(a, ns) EXCEPT !.s = ns]

arr_size(a) == IF a.alloc THEN a.s ELSE 0

arr_push(a, v) ==
    LET a1 == arr_resize(a, arr_size(a) + 1)
    IN  [a1 EXCEPT !.data[arr_size(a1) - 1] = v]

\* the elements after memmove(data + dst, data + src, n elements)
memmove(data, dst, src, n) ==
    [j \in DOMAIN data |-> IF j >= dst /\ j < dst + n THEN data[j - dst + src] ELSE data[j]]

\* faulty variant: the elements from i on are not moved up
arr_insert_overwrites(a, v, i) ==
    IF ~a.alloc THEN arr_push(a, v)
    ELSE LET a1 == arr_resize(a, arr_size(a) + 1)
         IN  [a1 EXCEPT !.data[i] = v]

\* the caller's part of the contract is 0 <= i <= arr_size(a)
arr_insert(a, v, i) ==
    IF ~a.alloc THEN arr_push(a, v)
    ELSE LET size == arr_size(a)
             a1 == arr_resize(a, size + 1)
             moved == memmove(a1.data, i + 1, i, size - i)
         IN  [a1 EXCEPT !.data = [moved EXCEPT ![i] = v]]

\* the caller's part of the contract is 0 <= i < arr_size(a)
arr_remove(a, i) ==
    IF a.alloc
    THEN LET size == arr_size(a) - 1
             moved == memmove(a.data, i, i + 1, size - i)
         IN  arr_resize([a EXCEPT !.data = moved], size)
    ELSE a

\* the caller's part of the contract is arr_size(a) > 0
arr_pop(a) == [a EXCEPT !.s = arr_size(a) - 1]

arr_free(a) == NullArr

\* the sign of a - b
compare_int(a, b) == (IF a > b THEN 1 ELSE 0) - (IF a < b THEN 1 ELSE 0)

\* faulty variant: a miss returns -l, not ~l
RECURSIVE binarysearch_loop_negates(_, _, _, _)
binarysearch_loop_negates(key, base, l, r) ==
    IF l <= r
    THEN LET m == (l + r) \div 2
             cmp == compare_int(base[m], key)
         IN  IF cmp < 0 THEN binarysearch_loop_negates(key, base, m + 1, r)
             ELSE IF cmp > 0 THEN binarysearch_loop_negates(key, base, l, m - 1)
             ELSE m
    ELSE -l

\* the while loop of arr_binarysearch; ~l is -l - 1
RECURSIVE binarysearch_loop(_, _, _, _)
binarysearch_loop(key, base, l, r) ==
    IF l <= r
    THEN LET m == (l + r) \div 2
             cmp == compare_int(base[m], key)
         IN  IF cmp < 0 THEN binarysearch_loop(key, base, m + 1, r)
             ELSE IF cmp > 0 THEN binarysearch_loop(key, base, l, m - 1)
             ELSE m
    ELSE -l - 1

\* r = num - 1 is computed in size_t and converted to int: for num = 0 it is
\* the largest size_t, which the conversion turns into -1
arr_binarysearch(key, base, num) == binarysearch_loop(key, base, 0, num - 1)

(***************************************************************************)
(* The state machine: one caller, one table.                               *)
(***************************************************************************)
M == [t |-> table, h |-> heap]

EmptyHeap == [live |-> {}, bad_free |-> FALSE]

NoCall == [op |-> "new", key |-> NULL, value |-> NULL, ret |-> 0]

\* int *test = NULL
ArrInit ==
    /\ arr = NullArr
    /\ ar_last = [op |-> "null", arg |-> 0, ret |-> 0]
    /\ ar_abs = <<>>

\* the nodes of the list's caller as ill_test creates them: none is linked
ListInit ==
    /\ list = [a \in 1..MaxNodes |-> ill_create_test_node(a - 1)]
    /\ il_last = [op |-> "create", node |-> ILL_NULL]
    /\ il_abs = <<>>

\* the deque after deque_init, no node being allocated
DequeInit ==
    /\ deque = deque_init
    /\ nodes = <<>>
    /\ dq_last = [op |-> "init", ret |-> 0]
    /\ dq_abs = <<>>

Values == IF table.assign_value = "assign_string" THEN StrValues ELSE LongValues

InitWith(hash_fn, assign_key, assign_value) ==
    LET m == basic_hash_table_new(hash_fn, assign_key, assign_value, EmptyHeap)
    IN  /\ table = m.t
        /\ heap = m.h
        /\ alive = TRUE
        /\ last = NoCall
        /\ abs = <<>>
        /\ removed = {}
        /\ order = <<>>
        /\ iter = -1
        /\ produced = <<>>
        /\ DequeInit
        /\ ListInit
        /\ ArrInit

\* test_strtol: string keys owned by the table, long values
Init == InitWith("hash_string", "assign_string", "assign_long")

\* string keys and string values, both owned by the table
InitOwn == InitWith("hash_string", "assign_string", "assign_string")

SetCall(k, v) ==
    /\ alive
    /\ LET r == basic_hash_table_set(M, Arg(k), Arg(v))
           l == [NoCall EXCEPT !.op = "set", !.key = Arg(k), !.value = Arg(v),
                               !.ret = r.ret]
       IN  /\ r.m.t.reserved <= primes[MaxPrimeIdx]
           /\ table' = r.m.t
           /\ heap' = r.m.h
           /\ last' = l
    /\ abs' = [x \in DOMAIN abs \cup {k} |-> IF x = k THEN v ELSE abs[x]]
    /\ removed' = removed \ {k}
    /\ UNCHANGED alive

Set(k, v) == SetCall(k, v) /\ UNCHANGED <<order, iter, produced, dq_vars, il_vars, ar_vars>>

Get(k) ==
    /\ alive
    /\ LET r == basic_hash_table_get(M, Arg(k), Uninit)
           l == [NoCall EXCEPT !.op = "get", !.key = Arg(k), !.ret = r.ret]
       IN  /\ table' = r.m.t
           /\ heap' = r.m.h
           /\ last' = l
    /\ UNCHANGED <<alive, abs, removed, order, iter, produced, dq_vars, il_vars, ar_vars>>

Remove(k) ==
    /\ alive
    /\ LET r == basic_hash_table_remove(M, Arg(k), Uninit)
           l == [NoCall EXCEPT !.op = "remove", !.key = Arg(k), !.ret = r.ret]
       IN  /\ table' = r.m.t
           /\ heap' = r.m.h
           /\ last' = l
           /\ removed' = IF r.ret = 1 THEN removed \cup {k} ELSE removed
    /\ abs' = [x \in DOMAIN abs \ {k} |-> abs[x]]
    /\ UNCHANGED <<alive, order, iter, produced, dq_vars, il_vars, ar_vars>>

\* one call of next, at any cursor
NextAt(c) ==
    /\ alive
    /\ LET r == basic_hash_table_next(M, c, Uninit, Uninit)
           l == [NoCall EXCEPT !.op = "next", !.ret = r.ret]
       IN  /\ table' = r.m.t
           /\ heap' = r.m.h
           /\ last' = l
    /\ UNCHANGED <<alive, abs, removed, order, iter, produced, dq_vars, il_vars, ar_vars>>

Delete ==
    /\ alive
    /\ LET m == basic_hash_table_delete(M)
           l == [NoCall EXCEPT !.op = "delete"]
       IN  /\ table' = m.t
           /\ heap' = m.h
           /\ last' = l
    /\ alive' = FALSE
    /\ abs' = <<>>
    /\ removed' = {}
    /\ UNCHANGED <<order, iter, produced, dq_vars, il_vars, ar_vars>>

Next ==
    \/ \E k \in Keys : \E v \in Values : Set(k, v)
    \/ \E k \in Keys : Get(k)
    \/ \E k \in Keys : Remove(k)
    \/ \E c \in 0..table.reserved : NextAt(c)
    \/ Delete

Spec == Init /\ [][Next]_vars

SpecOwn == InitOwn /\ [][Next]_vars

(***************************************************************************)
(* A table of short keys and long values, as in test_stol, with the        *)
(* caller's hash function hash_value: the caller sets the keys in one of   *)
(* the orders above, and removes keys in between.                          *)
(***************************************************************************)
InitHash ==
    LET m == basic_hash_table_new("hash_value", "assign_short", "assign_long", EmptyHeap)
    IN  /\ table = m.t
        /\ heap = m.h
        /\ alive = TRUE
        /\ last = NoCall
        /\ abs = <<>>
        /\ removed = {}
        /\ order \in ShortOrders
        /\ iter = -1
        /\ produced = <<>>
        /\ DequeInit
        /\ ListInit
        /\ ArrInit

SetShort ==
    /\ order # <<>>
    /\ SetCall(Head(order), StolValue(Head(order)))
    /\ order' = Tail(order)
    /\ UNCHANGED <<iter, produced, dq_vars, il_vars, ar_vars>>

\* the caller removes a key when every key it removed before is set again
RemoveShort(k) ==
    /\ removed = {}
    /\ Remove(k)

NextHash ==
    \/ SetShort
    \/ \E k \in ShortKeys : RemoveShort(k)

SpecHash == InitHash /\ [][NextHash]_vars

(***************************************************************************)
(* Round trip: pairwise distinct keys are inserted into a new table, then  *)
(* the caller traverses it with next from begin() until next returns       *)
(* end(); produced lists the pairs next wrote into the caller's buffers.   *)
(***************************************************************************)
InitRT ==
    LET m == basic_hash_table_new("hash_string", "assign_string", "assign_long", EmptyHeap)
    IN  /\ table = m.t
        /\ heap = m.h
        /\ alive = TRUE
        /\ last = NoCall
        /\ abs = <<>>
        /\ removed = {}
        /\ order \in RTOrders
        /\ iter = -1
        /\ produced = <<>>
        /\ DequeInit
        /\ ListInit
        /\ ArrInit

RTSet ==
    /\ iter = -1
    /\ order # <<>>
    /\ SetCall(Head(order), RTValue(Head(order)))
    /\ order' = Tail(order)
    /\ UNCHANGED <<iter, produced, dq_vars, il_vars, ar_vars>>

RTBegin ==
    /\ iter = -1
    /\ iter' = basic_hash_table_begin(table)
    /\ UNCHANGED <<table, heap, alive, last, abs, removed, order, produced, dq_vars, il_vars, ar_vars>>

RTNext ==
    /\ iter >= 0
    /\ iter # basic_hash_table_end(table)
    /\ LET r == basic_hash_table_next(M, iter, Uninit, Uninit)
       IN  /\ iter' = r.ret
           /\ produced' = IF r.key # Uninit
                          THEN Append(produced, <<r.key.data, r.value.data>>)
                          ELSE produced
           /\ table' = r.m.t
           /\ heap' = r.m.h
           /\ last' = [NoCall EXCEPT !.op = "next", !.ret = r.ret]
    /\ UNCHANGED <<alive, abs, removed, order, dq_vars, il_vars, ar_vars>>

NextRT ==
    \/ RTSet
    \/ RTBegin
    \/ RTNext

SpecRT == InitRT /\ [][NextRT]_vars

(***************************************************************************)
(* The deque and its caller, as in deque_test: pushes and pops at both     *)
(* ends in any order, pops and peeks on a deque that is not empty.         *)
(***************************************************************************)
D == [deque |-> deque, mem |-> nodes]

PushBack(x) ==
    /\ deque.length < MaxDequeLen
    /\ LET d == deque_push_back(D, x)
       IN  /\ deque' = d.deque
           /\ nodes' = d.mem
    /\ dq_last' = [op |-> "push_back", ret |-> 0]
    /\ dq_abs' = Append(dq_abs, x)
    /\ UNCHANGED <<ht_vars, il_vars, ar_vars>>

PushFront(x) ==
    /\ deque.length < MaxDequeLen
    /\ LET d == deque_push_front(D, x)
       IN  /\ deque' = d.deque
           /\ nodes' = d.mem
    /\ dq_last' = [op |-> "push_front", ret |-> 0]
    /\ dq_abs' = <<x>> \o dq_abs
    /\ UNCHANGED <<ht_vars, il_vars, ar_vars>>

PopBack ==
    /\ deque.tail # ILL_NULL
    /\ LET d == deque_pop_back(D)
       IN  /\ deque' = d.deque
           /\ nodes' = d.mem
           /\ dq_last' = [op |-> "pop_back", ret |-> d.ret]
    /\ dq_abs' = SubSeq(dq_abs, 1, Len(dq_abs) - 1)
    /\ UNCHANGED <<ht_vars, il_vars, ar_vars>>

PopFront ==
    /\ deque.head # ILL_NULL
    /\ LET d == deque_pop_front(D)
       IN  /\ deque' = d.deque
           /\ nodes' = d.mem
           /\ dq_last' = [op |-> "pop_front", ret |-> d.ret]
    /\ dq_abs' = Tail(dq_abs)
    /\ UNCHANGED <<ht_vars, il_vars, ar_vars>>

NextDeque ==
    \/ \E x \in DequeData : PushBack(x)
    \/ \E x \in DequeData : PushFront(x)
    \/ PopBack
    \/ PopFront

SpecDeque == Init /\ [][NextDeque]_vars

(***************************************************************************)
(* The deque with a caller that also clears it.  After deque_clear on a    *)
(* deque that was not empty, head still holds the address of a node that   *)
(* was freed: whatever the caller does next with the front of the deque    *)
(* (push_back tests head, push_front writes through it, pop_front and      *)
(* peek_front read through it) uses freed memory, and what that does is    *)
(* not defined.  That step is UseFreedHead; nothing is said about what     *)
(* follows it.                                                             *)
(***************************************************************************)
HeadDangles == deque.head # ILL_NULL /\ deque.head \notin DOMAIN nodes

Defined == ~HeadDangles /\ dq_last.op # "undefined"

Clear ==
    /\ dq_last.op # "undefined"
    /\ LET d == deque_clear(D)
       IN  /\ deque' = d.deque
           /\ nodes' = d.mem
    /\ dq_last' = [op |-> "clear", ret |-> 0]
    /\ dq_abs' = <<>>
    /\ UNCHANGED <<ht_vars, il_vars, ar_vars>>

UseFreedHead ==
    /\ HeadDangles
    /\ dq_last.op # "undefined"
    /\ dq_last' = [op |-> "undefined", ret |-> 0]
    /\ UNCHANGED <<ht_vars, il_vars, ar_vars, deque, nodes, dq_abs>>

ClearedPushBack(x) == Defined /\ PushBack(x)

ClearedPushFront(x) == Defined /\ PushFront(x)

ClearedPopBack == Defined /\ PopBack

ClearedPopFront == Defined /\ PopFront

NextDequeClear ==
    \/ \E x \in DequeData : ClearedPushBack(x)
    \/ \E x \in DequeData : ClearedPushFront(x)
    \/ ClearedPopBack
    \/ ClearedPopFront
    \/ Clear
    \/ UseFreedHead

SpecDequeClear == Init /\ [][NextDequeClear]_vars

(***************************************************************************)
(* The intrusive list and its caller, as in ill_test: the caller owns the  *)
(* nodes, links a node that is not linked to the head or the tail of the   *)
(* list, found from any node of it (from NULL when the list is empty), and *)
(* unlinks the head, the tail or a node of its choice.                     *)
(***************************************************************************)
Linked == {il_abs[i] : i \in DOMAIN il_abs}

Froms == IF il_abs = <<>> THEN {ILL_NULL} ELSE Linked

\* s without its element x
Without(s, x) == SelectSeq(s, LAMBDA y : y # x)

LinkTail(from, node) ==
    /\ node \notin Linked
    /\ list' = ill_link_tail(list, from, node)
    /\ il_last' = [op |-> "link_tail", node |-> node]
    /\ il_abs' = Append(il_abs, node)
    /\ UNCHANGED <<ht_vars, dq_vars, ar_vars>>

LinkHead(from, node) ==
    /\ node \notin Linked
    /\ list' = ill_link_head(list, from, node)
    /\ il_last' = [op |-> "link_head", node |-> node]
    /\ il_abs' = <<node>> \o il_abs
    /\ UNCHANGED <<ht_vars, dq_vars, ar_vars>>

UnlinkHead(from) ==
    /\ list' = ill_unlink_head(list, from)
    /\ il_last' = [op |-> "unlink_head", node |-> ill_head(list, from)]
    /\ il_abs' = Tail(il_abs)
    /\ UNCHANGED <<ht_vars, dq_vars, ar_vars>>

UnlinkTail(from) ==
    /\ list' = ill_unlink_tail(list, from)
    /\ il_last' = [op |-> "unlink_tail", node |-> ill_tail(list, from)]
    /\ il_abs' = SubSeq(il_abs, 1, Len(il_abs) - 1)
    /\ UNCHANGED <<ht_vars, dq_vars, ar_vars>>

Unlink(node) ==
    /\ list' = ill_unlink(list, node)
    /\ il_last' = [op |-> "unlink", node |-> node]
    /\ il_abs' = Without(il_abs, node)
    /\ UNCHANGED <<ht_vars, dq_vars, ar_vars>>

NextList ==
    \/ \E from \in Froms, node \in 1..MaxNodes : LinkTail(from, node)
    \/ \E from \in Froms, node \in 1..MaxNodes : LinkHead(from, node)
    \/ \E from \in Linked : UnlinkHead(from)
    \/ \E from \in Linked : UnlinkTail(from)
    \/ \E node \in Linked : Unlink(node)

SpecList == Init /\ [][NextList]_vars

(***************************************************************************)
(* The growable array and its caller: pushes, inserts and removes at any   *)
(* index of the contract, pops of an array that is not empty, reserves and *)
(* arr_free, in any order, on a short array; and as in arr_test the pushes *)
(* of the elements of a string, one after the other into an array that     *)
(* holds the elements before them, until all are in and the array is freed *)
(* or reserved.                                                            *)
(***************************************************************************)
\* s with x put before its element at index i (from 0), at the end for i = Len(s)
InsertAt(s, i, x) == SubSeq(s, 1, i) \o <<x>> \o SubSeq(s, i + 1, Len(s))

\* s without its element at index i (from 0)
RemoveAt(s, i) == SubSeq(s, 1, i) \o SubSeq(s, i + 2, Len(s))

ArrPush(v) ==
    /\ arr_size(arr) < MaxArrLen
    /\ arr' = arr_push(arr, v)
    /\ ar_last' = [op |-> "push", arg |-> v, ret |-> 0]
    /\ ar_abs' = Append(ar_abs, v)
    /\ UNCHANGED <<ht_vars, dq_vars, il_vars>>

ArrInsert(v, i) ==
    /\ arr_size(arr) < MaxArrLen
    /\ i <= arr_size(arr)
    /\ arr' = arr_insert(arr, v, i)
    /\ ar_last' = [op |-> "insert", arg |-> i, ret |-> 0]
    /\ ar_abs' = InsertAt(ar_abs, i, v)
    /\ UNCHANGED <<ht_vars, dq_vars, il_vars>>

ArrRemove(i) ==
    /\ arr_size(arr) <= MaxArrLen
    /\ i < arr_size(arr)
    /\ arr' = arr_remove(arr, i)
    /\ ar_last' = [op |-> "remove", arg |-> i, ret |-> 0]
    /\ ar_abs' = RemoveAt(ar_abs, i)
    /\ UNCHANGED <<ht_vars, dq_vars, il_vars>>

\* while (*begin != '\0') arr_push(str_arr, *begin++): one turn of the loop
ArrPushString ==
    /\ arr_size(arr) < Len(ArrString)
    /\ ar_abs = SubSeq(ArrString, 1, arr_size(arr))
    /\ arr' = arr_push(arr, ArrString[arr_size(arr) + 1])
    /\ ar_last' = [op |-> "push_string", arg |-> ArrString[arr_size(arr) + 1], ret |-> 0]
    /\ ar_abs' = Append(ar_abs, ArrString[arr_size(arr) + 1])
    /\ UNCHANGED <<ht_vars, dq_vars, il_vars>>

ArrPop ==
    /\ arr_size(arr) <= MaxArrLen
    /\ arr_size(arr) > 0
    /\ arr' = arr_pop(arr)
    /\ ar_last' = [op |-> "pop", arg |-> 0, ret |-> arr_size(arr) - 1]
    /\ ar_abs' = SubSeq(ar_abs, 1, Len(ar_abs) - 1)
    /\ UNCHANGED <<ht_vars, dq_vars, il_vars>>

ArrReserve(ns) ==
    /\ arr' = arr_reserve(arr, ns)
    /\ ar_last' = [op |-> "reserve", arg |-> ns, ret |-> 0]
    /\ UNCHANGED <<ht_vars, dq_vars, il_vars, ar_abs>>

ArrFree ==
    /\ arr' = arr_free(arr)
    /\ ar_last' = [op |-> "free", arg |-> 0, ret |-> 0]
    /\ ar_abs' = <<>>
    /\ UNCHANGED <<ht_vars, dq_vars, il_vars>>

NextArr ==
    \/ \E v \in ArrData : ArrPush(v)
    \/ ArrPushString
    \/ \E v \in ArrData, i \in 0..MaxArrLen : ArrInsert(v, i)
    \/ \E i \in 0..MaxArrLen : ArrRemove(i)
    \/ ArrPop
    \/ \E ns \in ReserveSizes : ArrReserve(ns)
    \/ ArrFree

SpecArr == Init /\ [][NextArr]_vars

(***************************************************************************)
(* The array kept sorted as arr_test does: each key is inserted where      *)
(* arr_binarysearch says, and a key that is found is removed at the index  *)
(* arr_binarysearch returns.                                               *)
(***************************************************************************)
\* arr_binarysearch(&key, ordered, arr_size(ordered), sizeof(int), compare_int)
Search(key) == arr_binarysearch(key, arr.data, arr_size(arr))

SearchInsert(key) ==
    /\ arr_size(arr) < MaxSorted
    /\ LET found == Search(key)
           index == IF found < 0 THEN -found - 1 ELSE found
       IN  /\ arr' = arr_insert(arr, key, index)
           /\ ar_last' = [op |-> "search_insert", arg |-> key, ret |-> found]
           /\ ar_abs' = InsertAt(ar_abs, index, key)
    /\ UNCHANGED <<ht_vars, dq_vars, il_vars>>

SearchRemove(key) ==
    /\ Search(key) >= 0
    /\ arr' = arr_remove(arr, Search(key))
    /\ ar_last' = [op |-> "search_remove", arg |-> key, ret |-> Search(key)]
    /\ ar_abs' = RemoveAt(ar_abs, Search(key))
    /\ UNCHANGED <<ht_vars, dq_vars, il_vars>>

NextSearch ==
    \/ \E key \in SearchKeys : SearchInsert(key)
    \/ \E key \in SearchKeys : SearchRemove(key)

SpecSearch == Init /\ [][NextSearch]_vars

(***************************************************************************)
(* Properties.                                                             *)
(***************************************************************************)
\* what get(k) returns and delivers in machine state m
Lookup(m, k) == basic_hash_table_get(m, Arg(k), Uninit)

\* get(k) returns and delivers the same in m1 and in m2
SameLookup(m1, m2, k) ==
    /\ Lookup(m1, k).ret = Lookup(m2, k).ret
    /\ Lookup(m1, k).out.data = Lookup(m2, k).out.data

Occupied(t) == {i \in DOMAIN t.flags : t.flags[i] = HASH_ELEM_USED}
Tombstones(t) == {i \in DOMAIN t.flags : t.flags[i] = HASH_ELEM_DELETED}

\* C1: a get(k) right after set(k, v) returns 1 and delivers v.
C1_GetAfterSet ==
    last.op = "set" =>
        /\ Lookup(M, last.key.data).ret = 1
        /\ Lookup(M, last.key.data).out.data = last.value.data

\* a set replaced a value, after a rehash, in a table that holds a tombstone
C1_Witness ==
    /\ last.op = "set"
    /\ last.ret = 0
    /\ table.reserved > primes[1]
    /\ Tombstones(table) # {}

\* C2: the table refines the key -> value map: get(k) returns (1, v) for the
\* v of the last set(k, v) when no remove(k) followed it, and 0 otherwise.
C2_RefinesMap ==
    alive =>
        \A k \in Keys :
            IF k \in DOMAIN abs
            THEN Lookup(M, k).ret = 1 /\ Lookup(M, k).out.data = abs[k]
            ELSE Lookup(M, k).ret = 0

\* C3: after remove(k) returned 1, get(k) returns 0 until the next set(k, .).
C3_RemovedStaysAbsent == \A k \in removed : Lookup(M, k).ret = 0

\* C4: when a set triggers a rehash, every get returns and delivers just after
\* the rehash what it did just before it.
C4_RehashPreserves ==
    (alive /\ needs_rehash(table.load, table.reserved)) =>
        \A k \in Keys :
            SameLookup(basic_hash_table_rehash(M, table.reserved,
                                               next_prime_size(table.reserved)),
                       M, k)

\* C5: set(k, v) returns 1 exactly when get(k) would have returned 0 just
\* before the call; when it returns 0 the entry's value is replaced and no
\* entry is added.
C5_SetReturnsInserted ==
    alive =>
        \A k \in Keys : \A v \in Values :
            LET r == basic_hash_table_set(M, Arg(k), Arg(v))
            IN  /\ r.ret = 1 <=> Lookup(M, k).ret = 0
                /\ r.ret = 0 =>
                       /\ Lookup(r.m, k).out.data = v
                       /\ Cardinality(Occupied(r.m.t)) <= Cardinality(Occupied(table))

\* C6: with owned strings as keys and values, after delete every string the
\* callbacks allocated has been freed, and none was freed twice.
C6_FreedExactlyOnce == ~alive => (heap.live = {} /\ ~heap.bad_free)

C8_RemoveKeepsOthers ==
    alive =>
        \A k \in Keys :
            \A k2 \in Keys \ {k} :
                SameLookup(basic_hash_table_remove(M, Arg(k), Uninit).m, M, k2)

\* a remove left a tombstone in the home slot of another key, which get finds
\* further along its probe sequence
C8_Witness ==
    /\ last.op = "remove"
    /\ last.ret = 1
    /\ \E k2 \in Keys \ {last.key.data} :
           /\ Lookup(M, k2).ret = 1
           /\ table.flags[probe(hash_string(Arg(k2)), 0, table.reserved)] = HASH_ELEM_DELETED

\* C9: after N pairwise distinct keys were inserted into a new table, a full
\* traversal produces N pairs, with pairwise distinct keys, and the pairs
\* produced are the pairs inserted.
C9_RoundTrip ==
    (iter >= 0 /\ iter = basic_hash_table_end(table)) =>
        /\ Len(produced) = Cardinality(DOMAIN abs)
        /\ \A i, j \in 1..Len(produced) : i # j => produced[i][1] # produced[j][1]
        /\ {produced[i] : i \in 1..Len(produced)} = {<<k, abs[k]>> : k \in DOMAIN abs}

\* a traversal of a table that was rehashed ended, all keys being inserted
C9_Witness ==
    /\ iter = basic_hash_table_end(table)
    /\ table.reserved > primes[1]
    /\ order = <<>>
    /\ Len(produced) >= 8

\* C10: next(c) returns end() exactly when no slot at an index >= c is
\* Occupied.
C10_EndIffExhausted ==
    alive =>
        \A c \in 0..table.reserved :
            (basic_hash_table_next(M, c, Uninit, Uninit).ret = basic_hash_table_end(table))
                <=> (\A j \in c..(table.reserved - 1) : table.flags[j] # HASH_ELEM_USED)

\* C11: begin() is 0 and end() is the capacity; next(c), for a cursor c in
\* 0..capacity, writes the key and the value of the first Occupied slot j >= c
\* to the caller's buffers and returns j + 1; when there is no such slot it
\* returns end() and writes neither buffer; next leaves the table as it was.
C11_NextContract ==
    alive =>
        /\ basic_hash_table_begin(table) = 0
        /\ basic_hash_table_end(table) = table.reserved
        /\ \A c \in 0..table.reserved :
               LET r == basic_hash_table_next(M, c, Uninit, Uninit)
                   later == {j \in Occupied(table) : j >= c}
               IN  /\ r.m.t = table
                   /\ IF later # {}
                      THEN /\ r.ret = Min(later) + 1
                           /\ r.key = table.keys[Min(later)]
                           /\ r.value = table.values[Min(later)]
                      ELSE /\ r.ret = basic_hash_table_end(table)
                           /\ r.key = Uninit
                           /\ r.value = Uninit

\* a next returned the successor of an Occupied slot that follows a tombstone
C11_Witness ==
    /\ last.op = "next"
    /\ last.ret - 1 \in Occupied(table)
    /\ \E d \in Tombstones(table) : d < last.ret - 1

\* C12: get(k, out) leaves the table as it was (capacity, load, every slot's
\* flag, key and value), on a hit and on a miss, and on a miss it does not
\* write the caller's out buffer.
C12_GetLeavesTable ==
    alive =>
        \A k \in Keys :
            LET r == basic_hash_table_get(M, Arg(k), Uninit)
            IN  /\ r.m.t = table
                /\ r.ret = 0 => r.out = Uninit

\* a get missed after probing past a tombstone and an entry, and another key
\* would hit
C12_Witness ==
    /\ last.op = "get"
    /\ last.ret = 0
    /\ Tombstones(table) # {}
    /\ \E k \in Keys : Lookup(M, k).ret = 1

\* the n-th capacity of a table that keeps growing: 13, 17, ..., 349, and from
\* 349 on old * 2 - old / 2
RECURSIVE Capacity(_)
Capacity(n) ==
    IF n <= Len(primes) THEN primes[n]
    ELSE (Capacity(n - 1) * 2) - (Capacity(n - 1) \div 2)

\* each capacity of the sequence is followed by the next one, which is greater
GrowthFollowsSequence ==
    \A n \in 1..MaxGrowths :
        /\ next_prime_size(Capacity(n)) = Capacity(n + 1)
        /\ Capacity(n + 1) > Capacity(n)

\* C13: the capacity is never below 13 and never decreases; a rehash installs
\* a greater capacity, the successor of the previous one in 13, 17, 29, 47, 61,
\* 97, 157, 251, 349 and, from 349 on, old * 2 - old / 2.
C13_CapacityGrows ==
    [][alive' =>
          /\ table'.reserved >= primes[1]
          /\ table'.reserved >= table.reserved
          /\ table'.reserved # table.reserved =>
                 table'.reserved = next_prime_size(table.reserved)
          /\ GrowthFollowsSequence]_vars

\* a set grew the table, which held a tombstone, and inserted its key
C13_Witness ==
    /\ last.op = "set"
    /\ last.ret = 1
    /\ table.reserved = primes[2]
    /\ table.load = 1
    /\ removed # {}

\* what set(k, v) does in the current state, for a short key k
SetOf(k) == basic_hash_table_set(M, Arg(k), Arg(StolValue(k)))

\* the table on which set(k, .) starts to probe: the current one, rehashed
\* first when the load is above half the capacity
AtProbe ==
    IF table.load > table.reserved \div 2
    THEN basic_hash_table_rehash(M, table.reserved, next_prime_size(table.reserved))
    ELSE M

\* the sums hash + i * i of a probe pass for k over reserved slots wrap
\* around 2^HashBits
Wraps(k, reserved) ==
    LET h == hash(table.hash, Arg(k))
    IN  h < 0 /\ h + (reserved - 1) * (reserved - 1) >= 0

IsPrime(n) == n \in {primes[i] : i \in 1..Len(primes)}

C15_RemoveDeliversUsable ==
    alive =>
        \A k \in Keys :
            LET r == basic_hash_table_remove(M, Arg(k), Uninit)
                g == basic_hash_table_get(M, Arg(k), Uninit)
            IN  r.ret = 1 =>
                    /\ r.out.data = g.out.data
                    /\ r.out.ptr > 0 => r.out.ptr \in r.m.h.live

\* the table is as new left it: 13 slots, all Empty, load 0, no key found
IsEmptyTable(m) ==
    /\ m.t.reserved = 13
    /\ DOMAIN m.t.flags = 0..12
    /\ \A i \in DOMAIN m.t.flags : m.t.flags[i] = HASH_ELEM_EMPTY
    /\ m.t.load = 0
    /\ \A k \in Keys \cup ShortKeys : Lookup(m, k).ret = 0

\* C16: right after new the capacity is 13, every slot is Empty, the load is 0
\* and get(k) returns 0 for every key k; this is so for every hash function
\* and assign callbacks new is given.
C16_NewIsEmpty ==
    /\ last.op = "new" => IsEmptyTable(M)
    /\ \A hash_fn \in {"hash_string", "hash_value"} :
           \A assign_key \in {"assign_string", "assign_short"} :
               \A assign_value \in {"assign_string", "assign_long"} :
                   IsEmptyTable(basic_hash_table_new(hash_fn, assign_key, assign_value, heap))

\* the table was constructed and no other call was made
C16_Witness == alive /\ last.op = "new" /\ table.hash = "hash_string"

\* the data of the nodes from node on, following next
RECURSIVE Walk(_, _)
Walk(mem, node) ==
    IF node = ILL_NULL THEN <<>>
    ELSE <<mem[node].data>> \o Walk(mem, mem[node].next)

\* C17: the deque refines a sequence: pop_back and peek_back return its last
\* element, pop_front and peek_front its first one, deque_length is its
\* length, and deque_empty is true exactly when it is of length 0.
C17_DequeRefinesSequence ==
    /\ Walk(nodes, deque.head) = dq_abs
    /\ deque_length(D) = Len(dq_abs)
    /\ deque_empty(D) = 1 <=> Len(dq_abs) = 0
    /\ Len(dq_abs) > 0 =>
           /\ deque_peek_back(D) = dq_abs[Len(dq_abs)]
           /\ deque_pop_back(D).ret = dq_abs[Len(dq_abs)]
           /\ deque_peek_front(D) = dq_abs[1]
           /\ deque_pop_front(D).ret = dq_abs[1]

\* a pop at the front returned three, and the deque still holds one, two and
\* three
C17_Witness ==
    /\ dq_last.op = "pop_front"
    /\ dq_last.ret = 3
    /\ dq_abs = <<1, 2, 3>>

\* C18: no two Occupied slots hold keys that compare equal.
C18_KeysUnique ==
    alive =>
        \A i, j \in Occupied(table) :
            i # j => compare_string(table.keys[i], table.keys[j]) # 0

\* C19: between operations, load is the number of slots that are Occupied or
\* Tombstone.
C19_LoadCountsUsedSlots ==
    alive => table.load = Cardinality(Occupied(table) \cup Tombstones(table))

\* the first probe pass of set(k, .) finds an Empty slot, a Tombstone slot or
\* the key
FirstPassFinds(k) ==
    set_probe(AtProbe, Arg(k), Arg(StolValue(k)), FALSE,
              hash(table.hash, Arg(k)), 0, AtProbe.t.reserved).found

C21_RehashRelocates ==
    (alive /\ needs_rehash(table.load, table.reserved)) =>
        LET r == basic_hash_table_rehash([t |-> table, h |-> Counting(heap)],
                                         table.reserved, next_prime_size(table.reserved))
        IN  r.h.allocs = 0 /\ r.h.frees = 0


\* the table after the rehash that the next set triggers
Rehashed == basic_hash_table_rehash(M, table.reserved, next_prime_size(table.reserved))

\* C22: right after a rehash no slot of the new storage is a Tombstone, load is
\* the number of Occupied slots of the new storage, and that number is the
\* number of Occupied slots the old storage had.
C22_RehashRecounts ==
    (alive /\ needs_rehash(table.load, table.reserved)) =>
        /\ Tombstones(Rehashed.t) = {}
        /\ Rehashed.t.load = Cardinality(Occupied(Rehashed.t))
        /\ Cardinality(Occupied(Rehashed.t)) = Cardinality(Occupied(table))


\* what remove(k) does in the current state
RemoveOf(k) == basic_hash_table_remove(M, Arg(k), Uninit)

Base(k, v) ==
    IF basic_hash_table_set(M, Arg(k), Arg(v)).rehashes = 0 THEN M ELSE Rehashed

\* index (hash(k) + i*i) mod capacity of table t
Slot(t, k, i) == (hash_string(Arg(k)) + i * i) % t.reserved

\* the smallest i whose slot is Empty or Tombstone in t, t.reserved if none
FirstFree(t, k) ==
    LET free_at == {i \in 0..(t.reserved - 1) :
                        t.flags[Slot(t, k, i)] \in {HASH_ELEM_EMPTY, HASH_ELEM_DELETED}}
    IN  IF free_at = {} THEN t.reserved ELSE Min(free_at)

\* C24: a set(k, v) that inserts a new entry writes it at index
\* (hash(k) + i*i) mod capacity for the smallest i whose slot is Empty or
\* Tombstone, the slots probed before it being Occupied with other keys; the
\* slot becomes Occupied, load grows by 1 and no other slot changes (capacity
\* and slots taken after the rehash of this set, if any).
C24_Placement ==
    alive =>
        \A k \in Keys, v \in Values :
            LET r == basic_hash_table_set(M, Arg(k), Arg(v))
                b == Base(k, v).t
                i == FirstFree(b, k)
                j == Slot(b, k, i)
            IN  r.ret = 1 =>
                    /\ r.rehashes <= 1
                    /\ i < b.reserved
                    /\ \A i2 \in 0..(i - 1) :
                           /\ b.flags[Slot(b, k, i2)] = HASH_ELEM_USED
                           /\ b.keys[Slot(b, k, i2)].data # k
                    /\ r.m.t.reserved = b.reserved
                    /\ r.m.t.load = b.load + 1
                    /\ r.m.t.flags = [b.flags EXCEPT ![j] = HASH_ELEM_USED]
                    /\ r.m.t.keys[j].data = k
                    /\ r.m.t.values[j].data = v
                    /\ \A x \in DOMAIN b.flags \ {j} :
                           /\ r.m.t.keys[x] = b.keys[x]
                           /\ r.m.t.values[x] = b.values[x]

\* after a set, a further set would insert a new entry in a Tombstone that it
\* reaches at its third probe or later
C24_Witness ==
    /\ alive
    /\ last.op = "set"
    /\ \E k \in Keys, v \in Values :
           /\ basic_hash_table_set(M, Arg(k), Arg(v)).ret = 1
           /\ FirstFree(Base(k, v).t, k) >= 2
           /\ Base(k, v).t.flags[Slot(Base(k, v).t, k, FirstFree(Base(k, v).t, k))]
                  = HASH_ELEM_DELETED


\* the probe indices i at which the key of slot j reaches slot j with no Empty
\* slot probed before
ChainTo(t, j) ==
    {i \in 0..(t.reserved - 1) :
        /\ probe(hash(t.hash, t.keys[j]), i, t.reserved) = j
        /\ \A i2 \in 0..(i - 1) :
               t.flags[probe(hash(t.hash, t.keys[j]), i2, t.reserved)] # HASH_ELEM_EMPTY}

\* C25: every Occupied slot j is reached by the probe sequence of its key at
\* some i < capacity with no Empty slot probed before it, so get finds every
\* key of an Occupied slot; and while the capacity stays the same no slot goes
\* back to Empty.
C25_ProbeChain ==
    /\ [](alive => \A j \in Occupied(table) :
                       /\ ChainTo(table, j) # {}
                       /\ Lookup(M, table.keys[j].data).ret = 1)
    /\ [][(alive /\ alive' /\ table'.reserved = table.reserved) =>
              \A j \in DOMAIN table.flags :
                  table.flags[j] # HASH_ELEM_EMPTY => table'.flags[j] # HASH_ELEM_EMPTY]_vars

\* after a remove, an Occupied slot is reached by its key only past a Tombstone
C25_Witness ==
    /\ alive
    /\ last.op = "remove"
    /\ last.ret = 1
    /\ \E j \in Occupied(table) :
           /\ ChainTo(table, j) # {}
           /\ \A i \in ChainTo(table, j) :
                  \E i2 \in 0..(i - 1) :
                      table.flags[probe(hash(table.hash, table.keys[j]), i2, table.reserved)]
                          = HASH_ELEM_DELETED


\* the slots that are not Empty
NonEmpty(t) == Occupied(t) \cup Tombstones(t)

\* C26: between operations the number of slots that are Occupied or Tombstone
\* is at most load, load is at most capacity / 2 + 1, and so at least one slot
\* is Empty.
C26_FreeSpace ==
    alive =>
        /\ Cardinality(NonEmpty(table)) <= table.load
        /\ table.load <= table.reserved \div 2 + 1
        /\ \E j \in DOMAIN table.flags : table.flags[j] = HASH_ELEM_EMPTY

\* a set returned with load at capacity / 2 + 1 and fewer slots in use than
\* load counts
C26_Witness ==
    /\ alive
    /\ last.op = "set"
    /\ table.load = table.reserved \div 2 + 1
    /\ Cardinality(NonEmpty(table)) < table.load
    /\ Tombstones(table) # {}


\* what goes wrong while the for loop of rehash re-inserts the old slots i,
\* i + 1, ... into m: "assert" when a re-insertion starts with load above half
\* the new capacity, "nested" when a re-insertion rehashes again after a
\* failed probe pass
RECURSIVE MigrationFaults(_, _, _, _)
MigrationFaults(m, old, i, oldsize) ==
    IF i >= oldsize THEN {}
    ELSE IF slot_moves(old.flags[i])
         THEN LET r == basic_hash_table_set_inner(m, old.keys[i], old.values[i], TRUE)
              IN  (IF r.assert_failed THEN {"assert"} ELSE {})
                      \cup (IF r.rehashes > 0 THEN {"nested"} ELSE {})
                      \cup MigrationFaults(r.m, old, i + 1, oldsize)
         ELSE MigrationFaults(m, old, i + 1, oldsize)

\* the same, for the rehash of m to its next size
RehashFaults(m) ==
    LET newsize == next_prime_size(m.t.reserved)
        cleared == [m.t EXCEPT !.keys = [i \in 0..(newsize - 1) |-> Uninit],
                               !.values = [i \in 0..(newsize - 1) |-> Uninit],
                               !.flags = [i \in 0..(newsize - 1) |-> HASH_ELEM_EMPTY],
                               !.load = 0,
                               !.reserved = newsize]
    IN  MigrationFaults([m EXCEPT !.t = cleared], m.t, 0, m.t.reserved)

\* C27: assert(!reset) never fails: in the rehash that a set starts, for its
\* load or after a failed probe pass, every re-insertion begins with load at
\* most half the new capacity, and none grows the table again.
C27_AssertHolds ==
    alive =>
        /\ needs_rehash(table.load, table.reserved) => RehashFaults(M) = {}
        /\ \A k \in ShortKeys : ~FirstPassFinds(k) => RehashFaults(AtProbe) = {}

\* the next set rehashes a table that has seven Occupied slots
C27_Witness ==
    /\ alive
    /\ order # <<>>
    /\ needs_rehash(table.load, table.reserved)
    /\ Cardinality(Occupied(table)) >= 7
    /\ SetOf(Head(order)).rehashes >= 1


\* the slots whose key set(k, .) passes to the key-equality callback: the
\* probed slots that are neither Empty nor Tombstone, up to the one where the
\* pass ends
RECURSIVE SetCompares(_, _, _)
SetCompares(t, k, i) ==
    IF i >= t.reserved THEN {}
    ELSE LET index == probe(hash(t.hash, Arg(k)), i, t.reserved)
         IN  IF slot_free(t.flags[index]) THEN {}
             ELSE {index} \cup (IF compare_string(Arg(k), t.keys[index]) = 0 THEN {}
                                ELSE SetCompares(t, k, i + 1))

\* the slots whose key get(k) and remove(k) pass to the key-equality callback
RECURSIVE GetCompares(_, _, _)
GetCompares(t, k, i) ==
    IF i >= t.reserved THEN {}
    ELSE LET index == probe(hash(t.hash, Arg(k)), i, t.reserved)
         IN  IF t.flags[index] = HASH_ELEM_USED
             THEN {index} \cup (IF compare_string(Arg(k), t.keys[index]) = 0 THEN {}
                                ELSE GetCompares(t, k, i + 1))
             ELSE IF probe_stops(t.flags[index]) THEN {}
             ELSE GetCompares(t, k, i + 1)

\* the key and the value of slot j are strings that are allocated
Stored(m, j) == m.t.keys[j].ptr \in m.h.live /\ m.t.values[j].ptr \in m.h.live

\* C28: the key-equality callback of set, get and remove is called on keys of
\* Occupied slots only, whose strings are allocated; get, remove and next
\* deliver, and remove and delete release, the contents of Occupied slots
\* only: nothing is freed twice and no freed string is compared or delivered.
C28_NoReleasedStorage ==
    alive =>
        /\ \A j \in Occupied(table) : Stored(M, j)
        /\ ~heap.bad_free
        /\ \A k \in Keys :
               /\ SetCompares(table, k, 0) \subseteq Occupied(table)
               /\ SetCompares(AtProbe.t, k, 0) \subseteq Occupied(AtProbe.t)
               /\ \A j \in Occupied(AtProbe.t) : Stored(AtProbe, j)
               /\ GetCompares(table, k, 0) \subseteq Occupied(table)
               /\ LET g == basic_hash_table_get(M, Arg(k), Uninit)
                  IN  g.ret = 1 => g.out.ptr \in g.m.h.live
               /\ LET r == basic_hash_table_remove(M, Arg(k), Uninit)
                  IN  /\ ~r.m.h.bad_free
                      /\ r.ret = 1 => \E j \in Occupied(table) :
                                          /\ r.m.t.flags[j] = HASH_ELEM_DELETED
                                          /\ r.m.h.live = heap.live \ {table.keys[j].ptr,
                                                                       table.values[j].ptr}
        /\ \A c \in 0..(table.reserved - 1) :
               LET n == basic_hash_table_next(M, c, Uninit, Uninit)
                   i == next_scan(table, c)
               IN  i < table.reserved =>
                       /\ table.flags[i] = HASH_ELEM_USED
                       /\ n.key.ptr \in heap.live
                       /\ n.value.ptr \in heap.live
        /\ ~basic_hash_table_delete(M).h.bad_free

\* after a remove the table holds a Tombstone whose strings were freed, on the
\* probe path of a key that is stored in an Occupied slot behind it
C28_Witness ==
    /\ alive
    /\ last.op = "remove"
    /\ last.ret = 1
    /\ \E j \in Tombstones(table) : table.keys[j] = Indeterminate
    /\ \E k \in Keys : /\ Lookup(M, k).ret = 1
                       /\ table.flags[probe(hash(table.hash, Arg(k)), 0, table.reserved)]
                              = HASH_ELEM_DELETED


\* C29: in every state of the deque, after deque_clear on a deque that holds
\* nodes too, tail = NULL implies head = NULL: a deque that reports empty has
\* no head.
C29_NullCoherence ==
    deque.tail = ILL_NULL => deque.head = ILL_NULL


\* the addresses visited from node on by ill_next, at most n of them
RECURSIVE Forward(_, _, _)
Forward(mem, node, n) ==
    IF node = ILL_NULL \/ n = 0 THEN <<>>
    ELSE <<node>> \o Forward(mem, ill_next(mem, node), n - 1)

\* the addresses visited from node on by ill_prev, at most n of them
RECURSIVE Backward(_, _, _)
Backward(mem, node, n) ==
    IF node = ILL_NULL \/ n = 0 THEN <<>>
    ELSE <<node>> \o Backward(mem, ill_prev(mem, node), n - 1)

\* C30: after every operation on the list each linked node n has
\* next(prev(n)) = n and prev(next(n)) = n where these neighbours exist, the
\* traversal with ill_next from ill_head of any linked node visits the linked
\* nodes in the order of the list, the traversal with ill_prev from ill_tail
\* visits them in the reverse order, and a node that is not linked has
\* prev = next = NULL.
C30_ListConsistent ==
    /\ \A n \in Linked :
           /\ list[n].prev # ILL_NULL => list[list[n].prev].next = n
           /\ list[n].next # ILL_NULL => list[list[n].next].prev = n
    /\ \A from \in Linked :
           /\ Forward(list, ill_head(list, from), MaxNodes + 1) = il_abs
           /\ Backward(list, ill_tail(list, from), MaxNodes + 1) = Rev(il_abs)
    /\ \A n \in (1..MaxNodes) \ Linked :
           list[n].prev = ILL_NULL /\ list[n].next = ILL_NULL

\* a node was unlinked from the middle of a list of four, in an order that is
\* not the order of the addresses
C30_Witness ==
    /\ il_last.op = "unlink"
    /\ Len(il_abs) = 3
    /\ il_abs[1] > il_abs[3]
    /\ list[il_abs[1]].next = il_abs[2]
    /\ il_last.node \notin {1, MaxNodes}


\* the elements the array stores, as a sequence
Elements(a) == [i \in 1..arr_size(a) |-> a.data[i - 1]]

\* s is sorted ascending under compare_int
Sorted(s) == \A i, j \in 1..Len(s) : i < j => compare_int(s[i], s[j]) <= 0

\* C31: over an array sorted ascending, for any key: a result i >= 0 of
\* arr_binarysearch is an index below num whose element compares equal to the
\* key; with a result i < 0 no element compares equal to the key, ~i is in
\* 0..num and the array with the key inserted at index ~i is sorted.
C31_BinarySearch ==
    Sorted(Elements(arr)) =>
        \A key \in SearchKeys \cup ProbeKeys :
            LET i == Search(key)
                num == arr_size(arr)
                at == -i - 1
            IN  /\ i >= 0 => /\ i < num
                             /\ compare_int(arr.data[i], key) = 0
                /\ i < 0 => /\ \A j \in 0..(num - 1) : compare_int(arr.data[j], key) # 0
                            /\ at >= 0
                            /\ at <= num
                            /\ Sorted(InsertAt(Elements(arr), at, key))
                            /\ Sorted(Elements(arr_insert(arr, key, at)))

\* the sorted array is full and holds a key twice; a key below all its
\* elements, one above them and one between them are searched without being
\* found
C31_Witness ==
    /\ ar_last.op = "search_insert"
    /\ arr_size(arr) = MaxSorted
    /\ Sorted(Elements(arr))
    /\ \E j \in 1..(MaxSorted - 1) : arr.data[j - 1] = arr.data[j]
    /\ \E key \in ProbeKeys : Search(key) = -1
    /\ \E key \in ProbeKeys : Search(key) = -MaxSorted - 1
    /\ \E key \in ProbeKeys : Search(key) < -1 /\ Search(key) > -MaxSorted - 1
    /\ \E key \in SearchKeys : Search(key) >= 0


\* C32: the growable array refines a sequence: after any pushes, inserts,
\* removes, pops and reserves its elements are the sequence (push appends,
\* insert moves the elements from index i on up by one, remove moves them
\* down by one, pop drops the last one, reserve changes nothing), its size is
\* at most its reserve, the reserve is at least ns right after
\* arr_reserve(ns), and after arr_free the pointer is NULL and the size 0.
C32_ArrayRefinesSequence ==
    /\ Elements(arr) = ar_abs
    /\ arr_size(arr) = Len(ar_abs)
    /\ arr.alloc => arr.s <= arr.r /\ DOMAIN arr.data = 0..(arr.r - 1)
    /\ ar_last.op = "reserve" => arr.alloc /\ arr.r >= ar_last.arg
    /\ \A ns \in 0..(2 * arr.r + 1) :
           /\ arr_reserve(arr, ns).r >= ns
           /\ Elements(arr_reserve(arr, ns)) = ar_abs
    /\ ar_last.op = "free" => ~arr.alloc /\ arr_size(arr) = 0
    /\ ~arr_free(arr).alloc /\ arr_size(arr_free(arr)) = 0

\* a push found the first block full and moved the array to a larger one, and
\* the array holds both values
C32_Witness ==
    /\ ar_last.op = "push_string"
    /\ arr.s = default_arr_size + 1
    /\ arr.r > default_arr_size + 1
    /\ \E i, j \in 0..(arr.s - 1) : arr.data[i] # arr.data[j]

====
